---- MODULE Spec2Model ----
(***************************************************************************)
(* n8n-nodes-smb2: the SMB2 node's execute (nodes/Smb2/Smb2.node.ts and    *)
(* its older copy nodes/SMB2/Smb2.node.ts), the helpers (renameFile,       *)
(* getReadableError, connectToSmbServer) and the Smb2Trigger node.         *)
(*                                                                         *)
(* JavaScript values are records [t, v]: t is the type tag and v the value *)
(* printed as JavaScript prints it.  Numbers are kept as their decimal     *)
(* text: the SMB status codes exceed 2^31, and the table SMB_ERROR_CODES   *)
(* is a JavaScript object, whose keys are property-key strings anyway.     *)
(***************************************************************************)
EXTENDS Integers, Sequences, FiniteSets, TLC

VARIABLES
    error,          \* getReadableError: the value it is applied to
    readable,       \* getReadableError: what it returned
    readableLocal,  \* what the copy local to nodes/SMB2/Smb2.node.ts returned
    pcE,            \* getReadableError: "input" before the call, "returned" after
    node,           \* the node whose handler runs: "Smb2", "SMB2" (execute) or "Smb2Trigger"
    operation,      \* getNodeParameter('operation', 0)
    continueOnFail, \* this.continueOnFail()
    nItems,         \* items.length
    pc,             \* position in the handler
    i,              \* the loop index, 1-based
    params,         \* the parameters read for the items so far, one per item
    returnItems,    \* returnItems, a sequence of [item, error]
    clientCreated,  \* a Client object has been constructed
    client,         \* the handler's local variable `client` is assigned
    closeCalls,     \* number of client.close() calls
    log,            \* the remote calls made so far, [op, item, path]
    share,          \* the remote share: path -> content
    caught,         \* the error caught by the item's catch block
    thrown,         \* the error on its way to the outer catch / the host
    primary,        \* the first error that left the try block
    result,         \* "running", "returned" or "threw"
    binaryFile,     \* the download's temp file: 0 (null) or the item it was made for
    tmpMade,        \* the items a temp file was created for
    cleanups,       \* number of cleanup() calls per temp file
    tmpData,        \* what the temp file holds
    cleanupFailed,  \* a cleanup() call has rejected
    fileOpens,      \* Tree.renameFile: handles opened
    fileCloses,     \* Tree.renameFile: file.close() calls
    existsResult,   \* upload: what tree.exists returned for item i
    extWrites,      \* number of writes by the external writer
    content,        \* upload: the content the input check was given
    event,          \* trigger: getNodeParameter('event'), the change the subscriber selected
    armed,          \* trigger: the server holds the watch (the directory handle is open)
    delivered,      \* trigger: the response bodies handed to the watchDirectory callback
    emitted,        \* trigger: the bodies passed to this.emit
    changes,        \* trigger: number of changes made in the watched directory
    connLost        \* trigger: the connection broke while the watch was armed

errVars == <<error, readable, readableLocal, pcE>>
hostVars == <<node, operation, continueOnFail, nItems>>
clientVars == <<clientCreated, client, closeCalls>>
tmpVars == <<binaryFile, tmpMade, cleanups, tmpData, cleanupFailed>>
fileVars == <<fileOpens, fileCloses>>
runVars == <<pc, i, params, returnItems, log, share, caught, thrown, primary, result,
             existsResult, extWrites, content>>
watchVars == <<event, armed, delivered, emitted, changes, connLost>>
vars == <<errVars, hostVars, watchVars, clientVars, tmpVars, fileVars, runVars>>

(***************************************************************************)
(* JavaScript values                                                       *)
(***************************************************************************)
Undefined == [t |-> "undefined", v |-> "undefined"]
Num(s) == [t |-> "number", v |-> s]
Str(s) == [t |-> "string", v |-> s]
\* a Buffer holding the bytes s
Buffer(s) == [t |-> "buffer", v |-> s]

\* ToBoolean: undefined, 0 and "" are falsy; an object (a Buffer, even an empty
\* one) is truthy
Truthy(x) ==
    CASE x.t = "undefined" -> FALSE
      [] x.t = "number" -> x.v # "0"
      [] x.t = "string" -> x.v # ""
      [] x.t = "buffer" -> TRUE

\* a || b
Or(a, b) == IF Truthy(a) THEN a ELSE b

\* x === 'literal'
StrictEqualsString(x, s) == x.t = "string" /\ x.v = s

(***************************************************************************)
(* helpers.ts: SMB_ERROR_CODES and getReadableError                        *)
(***************************************************************************)
SMB_ERROR_CODES ==
    "3221225525" :> "Access Denied - Check your permissions for this file/folder" @@
    "3221225506" :> "File/Path Not Found" @@
    "3221225514" :> "Invalid Parameter" @@
    "3221225485" :> "Sharing Violation - File is in use by another process" @@
    "3221225524" :> "Object Name Invalid" @@
    "3221225534" :> "Not Enough Quota" @@
    "3221225581" :> "Logon Failure - Check your username, password, and domain" @@
    "3221226036" :> "Bad Network Name - The specified share does not exist on the server" @@
    "2147942402" :> "Network Name Not Found - Share does not exist" @@
    "2147942405" :> "Network Path Not Found" @@
    "5" :> "Access Denied" @@
    "32" :> "Sharing Violation" @@
    "53" :> "Network Path Not Found" @@
    "67" :> "Network Name Not Found" @@
    "87" :> "Invalid Parameter" @@
    "1314" :> "Network Error"

\* SMB_ERROR_CODES[errorCode]: the property named by the key's text, or undefined
TableLookup(x) ==
    IF x.t # "undefined" /\ x.v \in DOMAIN SMB_ERROR_CODES
    THEN Str(SMB_ERROR_CODES[x.v]) ELSE Undefined

\* error.header?.status
HeaderStatus(e) == IF e.hasHeader THEN e.status ELSE Undefined

\* String(error) left out: `return error.message`
StringOf_MessageOnly(e) == e.message.v

\* String(error): an Error prints its name (and message), a plain object its tag
StringOf(e) ==
    IF e.isError
    THEN IF Truthy(e.message) THEN "Error: " \o e.message.v ELSE "Error"
    ELSE "[object Object]"

\* the fallback to errno left out
ErrorCodeOf_NoErrno(e) == Or(HeaderStatus(e), e.code)

\* errno consulted first
ErrorCodeOf_ErrnoFirst(e) == Or(Or(e.errno, HeaderStatus(e)), e.code)

\* the first of the three that the table has an entry for, if any
ErrorCodeOf_FirstMapped(e) ==
    IF Truthy(TableLookup(HeaderStatus(e))) THEN HeaderStatus(e)
    ELSE IF Truthy(TableLookup(e.code)) THEN e.code
    ELSE IF Truthy(TableLookup(e.errno)) THEN e.errno
    ELSE Or(Or(HeaderStatus(e), e.code), e.errno)

\* const errorCode = error.header?.status || error.code || error.errno
ErrorCodeOf(e) == Or(Or(HeaderStatus(e), e.code), e.errno)

getReadableError(e) ==
    IF e.nullish THEN "Unknown error occurred"
    ELSE LET errorCode == ErrorCodeOf(e) IN
      IF Truthy(errorCode) /\ Truthy(TableLookup(errorCode))
      THEN TableLookup(errorCode).v \o " (Code: " \o errorCode.v \o ")"
      ELSE IF StrictEqualsString(e.code, "ECONNREFUSED")
      THEN "Could not connect to SMB server - Connection refused"
      ELSE IF StrictEqualsString(e.code, "ETIMEDOUT")
      THEN "Connection to SMB server timed out"
      ELSE IF StrictEqualsString(e.code, "ENOTFOUND")
      THEN "SMB server not found - Check the server address"
      ELSE IF ~Truthy(e.message) /\ Truthy(HeaderStatus(e))
      THEN "SMB server returned an error (Code: " \o HeaderStatus(e).v \o ")"
      ELSE IF Truthy(e.message) THEN e.message.v ELSE StringOf(e)

(***************************************************************************)
(* The copy local to nodes/SMB2/Smb2.node.ts: its own table and function   *)
(***************************************************************************)
SMB2_SMB_ERROR_CODES ==
    "3221225525" :> "Access Denied - Check your permissions for this file/folder" @@
    "3221225506" :> "File/Path Not Found" @@
    "3221225514" :> "Invalid Parameter" @@
    "3221225485" :> "Sharing Violation - File is in use by another process" @@
    "3221225524" :> "Object Name Invalid" @@
    "3221225534" :> "Not Enough Quota" @@
    "3221225581" :> "Logon Failure - Check your username, password, and domain" @@
    "3221226036" :> "Bad Network Name - The specified share does not exist on the server" @@
    "2147942402" :> "Network Name Not Found - Share does not exist" @@
    "2147942405" :> "Network Path Not Found" @@
    "5" :> "Access Denied" @@
    "32" :> "Sharing Violation" @@
    "53" :> "Network Path Not Found" @@
    "67" :> "Network Name Not Found" @@
    "87" :> "Invalid Parameter" @@
    "1314" :> "Network Error"

\* SMB_ERROR_CODES[errorCode] in the local copy
SMB2_TableLookup(x) ==
    IF x.t # "undefined" /\ x.v \in DOMAIN SMB2_SMB_ERROR_CODES
    THEN Str(SMB2_SMB_ERROR_CODES[x.v]) ELSE Undefined

\* the branch for a status without message left out
SMB2_getReadableError_NoStatusBranch(e) ==
    IF e.nullish THEN "Unknown error occurred"
    ELSE LET errorCode == Or(Or(HeaderStatus(e), e.code), e.errno) IN
      IF Truthy(errorCode) /\ Truthy(SMB2_TableLookup(errorCode))
      THEN SMB2_TableLookup(errorCode).v \o " (Code: " \o errorCode.v \o ")"
      ELSE IF StrictEqualsString(e.code, "ECONNREFUSED")
      THEN "Could not connect to SMB server - Connection refused"
      ELSE IF StrictEqualsString(e.code, "ETIMEDOUT")
      THEN "Connection to SMB server timed out"
      ELSE IF StrictEqualsString(e.code, "ENOTFOUND")
      THEN "SMB server not found - Check the server address"
      ELSE IF Truthy(e.message) THEN e.message.v ELSE StringOf(e)

\* the local getReadableError; its debug(error) call only logs
SMB2_getReadableError(e) ==
    IF e.nullish THEN "Unknown error occurred"
    ELSE LET errorCode == Or(Or(HeaderStatus(e), e.code), e.errno) IN
      IF Truthy(errorCode) /\ Truthy(SMB2_TableLookup(errorCode))
      THEN SMB2_TableLookup(errorCode).v \o " (Code: " \o errorCode.v \o ")"
      ELSE IF StrictEqualsString(e.code, "ECONNREFUSED")
      THEN "Could not connect to SMB server - Connection refused"
      ELSE IF StrictEqualsString(e.code, "ETIMEDOUT")
      THEN "Connection to SMB server timed out"
      ELSE IF StrictEqualsString(e.code, "ENOTFOUND")
      THEN "SMB server not found - Check the server address"
      ELSE IF ~Truthy(e.message) /\ Truthy(HeaderStatus(e))
      THEN "SMB server returned an error (Code: " \o HeaderStatus(e).v \o ")"
      ELSE IF Truthy(e.message) THEN e.message.v ELSE StringOf(e)

(***************************************************************************)
(* The error values getReadableError is applied to                         *)
(***************************************************************************)
TableCodes == {Num(k) : k \in DOMAIN SMB_ERROR_CODES}
TransportCodes == {Str("ECONNREFUSED"), Str("ETIMEDOUT"), Str("ENOTFOUND")}

\* header.status: absent, 0 (STATUS_SUCCESS), every table code, an unmapped status
StatusValues == {Undefined, Num("0"), Num("3221225473")} \cup TableCodes
\* code: absent, the transport codes, another errno name, table codes, a numeric text
CodeValues == {Undefined, Str("EPIPE"), Str("5"), Num("259")} \cup TransportCodes \cup TableCodes
\* errno: absent, 0, a negative errno (as Node gives), table codes
ErrnoValues == {Undefined, Num("0"), Num("-111")} \cup TableCodes
MessageValues == {Undefined, Str(""), Str("read ECONNRESET")}

NullishError ==
    [nullish |-> TRUE, hasHeader |-> FALSE, status |-> Undefined, code |-> Undefined,
     errno |-> Undefined, message |-> Undefined, isError |-> FALSE]

ObjectErrors ==
    { [nullish |-> FALSE, hasHeader |-> h, status |-> s, code |-> c,
       errno |-> n, message |-> m, isError |-> b] :
        h \in BOOLEAN, s \in StatusValues, c \in CodeValues,
        n \in ErrnoValues, m \in MessageValues, b \in BOOLEAN }

\* an error without a header has no header.status
ErrorValues ==
    {NullishError} \cup {e \in ObjectErrors : ~e.hasHeader => e.status = Undefined}

(***************************************************************************)
(* The handlers' data                                                      *)
(***************************************************************************)
MaxItems == 2        \* bound: items.length ranges over 1..MaxItems
MaxExtWrites == 1    \* bound: writes by the external writer
MaxEntries == 1      \* bound: directory entries one readDirectory returns
MaxChanges == 2      \* bound: changes made in the watched directory

Paths == {"/a", "/b"}
\* the uploads of one batch are given the same destination, so that a later item
\* meets what an earlier one wrote
UploadPaths == {"/a"}
\* the folder a delete with the folder option names; the files of Paths lie in it
FolderPaths == {"/"}
Operations == {"list", "download", "upload", "delete", "rename"}

\* the trigger's 'Watch For' options
Events ==
    {"fileCreated", "fileDeleted", "fileUpdated", "folderCreated", "folderDeleted",
     "folderUpdated", "watchFolderUpdated"}

\* the raw change types a notification carries: 1..6 are the keys of eventMap,
\* 0 and 7 stand for the codes it has no key for
ChangeTypes == 0..7

\* the upload's input: <<binaryData, content>>.  Text content is the parameter
\* fileContent, empty or not; binary content is what getBinaryDataBuffer
\* resolves to, nothing or a Buffer (here an empty one)
UploadInputs ==
    {<<FALSE, Str("")>>, <<FALSE, Str("abc")>>, <<TRUE, Undefined>>, <<TRUE, Buffer("")>>}

\* the bytes createFile writes for a content: the string's text, the Buffer's bytes
Bytes(c) == IF c.t \in {"string", "buffer"} THEN c.v ELSE ""

\* what a path of the share holds: who wrote it, and the bytes
Absent == [by |-> "nobody", item |-> 0, data |-> ""]
Prior == [by |-> "prior", item |-> 0, data |-> "prior"]
External == [by |-> "external", item |-> 0, data |-> "external"]
Uploaded(k) == [by |-> "upload", item |-> k, data |-> Bytes(content)]

NoParam == [path |-> "", newPath |-> "", replace |-> FALSE, folder |-> FALSE]

\* the errors the library, the host and the file system raise in the handlers:
\* a server status without message, and a transport error
StatusError ==
    [nullish |-> FALSE, hasHeader |-> TRUE, status |-> Num("3221225485"),
     code |-> Undefined, errno |-> Undefined, message |-> Undefined, isError |-> TRUE]
SocketError ==
    [nullish |-> FALSE, hasHeader |-> FALSE, status |-> Undefined,
     code |-> Str("ECONNREFUSED"), errno |-> Num("-111"),
     message |-> Undefined, isError |-> TRUE]
\* STATUS_OBJECT_NAME_COLLISION, the server's answer to a create of an existing name
CollisionError ==
    [nullish |-> FALSE, hasHeader |-> TRUE, status |-> Num("3221225525"),
     code |-> Undefined, errno |-> Undefined, message |-> Undefined, isError |-> TRUE]
\* STATUS_DIRECTORY_NOT_EMPTY, the server's answer to the removal of a directory
\* that holds files (a status SMB_ERROR_CODES has no entry for)
DirectoryNotEmptyError ==
    [nullish |-> FALSE, hasHeader |-> TRUE, status |-> Num("3221225729"),
     code |-> Undefined, errno |-> Undefined, message |-> Undefined, isError |-> TRUE]
\* an error of the host or of the local file system
HostError ==
    [nullish |-> FALSE, hasHeader |-> FALSE, status |-> Undefined, code |-> Str("EPIPE"),
     errno |-> Undefined, message |-> Str("write EPIPE"), isError |-> TRUE]

\* what the awaited calls reject with: tree and file operations with a server
\* status, the connection's own calls with a transport error, the host's helpers
\* and the temp file with a local error
ServerErrors == {StatusError}
SocketErrors == {SocketError}
HostErrors == {HostError}

\* an Error object that carries a message only (NodeOperationError, NodeApiError)
MessageError(msg) ==
    [nullish |-> FALSE, hasHeader |-> FALSE, status |-> Undefined, code |-> Undefined,
     errno |-> Undefined, message |-> Str(msg), isError |-> TRUE]

\* thrown values: a raw error of the library, or one of n8n's error classes
NoError ==
    [kind |-> "none", message |-> "", itemIndex |-> 0, from |-> "none", cause |-> NullishError]
Raw(e, from) ==
    [kind |-> "raw", message |-> IF Truthy(e.message) THEN e.message.v ELSE "",
     itemIndex |-> 0, from |-> from, cause |-> e]
NodeOperationError(msg, idx) ==
    [kind |-> "NodeOperationError", message |-> msg, itemIndex |-> idx,
     from |-> "item", cause |-> NullishError]
NodeApiError(e, msg) ==
    [kind |-> "NodeApiError", message |-> msg, itemIndex |-> 0,
     from |-> "connect", cause |-> e]

\* the object getReadableError sees when handed a thrown value
AsError(t) == IF t.kind = "raw" THEN t.cause ELSE MessageError(t.message)

\* the parameters of the item being processed
param == params[Len(params)]

\* a remote call, as the server sees it: saw is what the path holds when it arrives
Call(op, path) ==
    [op |-> op, item |-> i, path |-> path,
     saw |-> IF path \in Paths THEN share[path] ELSE Absent]
ConnectCall(op) == [op |-> op, item |-> 0, path |-> "", saw |-> Absent]

(***************************************************************************)
(* Init: the state when the host calls execute (or trigger)                *)
(***************************************************************************)
ErrIdle ==
    /\ error = NullishError
    /\ readable = ""
    /\ readableLocal = ""
    /\ pcE = "idle"

HandlerIdle ==
    /\ pc = "start"
    /\ i = 1
    /\ params = <<>>
    /\ returnItems = <<>>
    /\ clientCreated = FALSE
    /\ client = FALSE
    /\ closeCalls = 0
    /\ log = <<>>
    /\ caught = NoError
    /\ thrown = NoError
    /\ primary = NoError
    /\ result = "running"
    /\ binaryFile = 0
    /\ tmpMade = {}
    /\ cleanups = [k \in 1..MaxItems |-> 0]
    /\ tmpData = Absent
    /\ cleanupFailed = FALSE
    /\ fileOpens = 0
    /\ fileCloses = 0
    /\ existsResult = FALSE
    /\ extWrites = 0
    /\ content = Undefined
    /\ armed = FALSE
    /\ delivered = <<>>
    /\ emitted = <<>>
    /\ changes = 0
    /\ connLost = FALSE

Init ==
    /\ ErrIdle
    /\ HandlerIdle
    /\ node \in {"Smb2", "SMB2", "Smb2Trigger"}
    /\ operation \in (IF node = "Smb2Trigger" THEN {"watch"} ELSE Operations)
    /\ continueOnFail \in (IF node = "Smb2Trigger" THEN {FALSE} ELSE BOOLEAN)
    /\ nItems \in (IF node = "Smb2Trigger" THEN {1} ELSE 1..MaxItems)
    /\ event \in (IF node = "Smb2Trigger" THEN Events ELSE {"none"})
    /\ share \in [Paths -> {Absent, Prior}]

(***************************************************************************)
(* Connecting: helpers.ts connectToSmbServer (Smb2, Smb2Trigger) and the   *)
(* inline copy of nodes/SMB2/Smb2.node.ts                                  *)
(***************************************************************************)
\* the getReadableError in scope of the running node: nodes/SMB2/Smb2.node.ts
\* calls its local copy, the other nodes import the one of helpers.ts
ReadableError(e) ==
    IF node = "SMB2" THEN SMB2_getReadableError(e) ELSE getReadableError(e)

ConnectMessage(e) == "Failed to connect to SMB server: " \o ReadableError(e)

\* the handler's reaction to an error e raised while connecting
ConnectCatch(e) ==
    LET apiError == NodeApiError(e, ConnectMessage(e)) IN
    CASE node = "Smb2" ->
            \* helpers.ts catch rethrows; execute's outer catch receives it
            /\ thrown' = apiError
            /\ primary' = apiError
            /\ pc' = "outerCatch"
            /\ UNCHANGED <<result, returnItems>>
      [] node = "SMB2" ->
            IF continueOnFail
            THEN /\ returnItems' = <<[item |-> 0, error |-> ConnectMessage(e)]>>
                 /\ result' = "returned"
                 /\ pc' = "done"
                 /\ UNCHANGED <<thrown, primary>>
            ELSE /\ thrown' = apiError
                 /\ primary' = apiError
                 /\ pc' = "outerCatch"
                 /\ UNCHANGED <<result, returnItems>>
      [] node = "Smb2Trigger" ->
            \* helpers.ts catch rethrows; trigger's catch wraps it once more
            /\ thrown' = NodeApiError(AsError(apiError), ConnectMessage(AsError(apiError)))
            /\ primary' = NodeApiError(AsError(apiError), ConnectMessage(AsError(apiError)))
            /\ result' = "threw"
            /\ pc' = "done"
            /\ UNCHANGED returnItems

\* await this.getCredentials('smb2Api')
GetCredentials ==
    /\ pc = "start"
    /\ \/ /\ pc' = "newClient"
          /\ UNCHANGED <<thrown, primary, result, returnItems>>
       \/ \E e \in HostErrors : ConnectCatch(e)
    /\ UNCHANGED <<errVars, hostVars, watchVars, clientVars, tmpVars, fileVars,
                   i, params, log, share, caught, existsResult, extWrites, content>>

\* new Client(credentials.host, ...): the SMB2 copy assigns execute's own variable
NewClient ==
    /\ pc = "newClient"
    /\ clientCreated' = TRUE
    /\ client' = (node = "SMB2")
    /\ pc' = "authenticate"
    /\ UNCHANGED <<errVars, hostVars, watchVars, closeCalls, tmpVars, fileVars,
                   i, params, returnItems, log, share, caught, thrown, primary, result,
                   existsResult, extWrites, content>>

\* session = await client.authenticate({...})
Authenticate ==
    /\ pc = "authenticate"
    /\ log' = Append(log, ConnectCall("authenticate"))
    /\ \/ /\ pc' = "connectTree"
          /\ UNCHANGED <<thrown, primary, result, returnItems>>
       \/ \E e \in SocketErrors : ConnectCatch(e)
    /\ UNCHANGED <<errVars, hostVars, watchVars, clientVars, tmpVars, fileVars,
                   i, params, share, caught, existsResult, extWrites, content>>

\* tree = await session.connectTree(credentials.share); on success the caller
\* receives { client, tree }
ConnectTree ==
    /\ pc = "connectTree"
    /\ log' = Append(log, ConnectCall("connectTree"))
    /\ \/ /\ pc' = IF node = "Smb2Trigger" THEN "watchDirectory" ELSE "loop"
          /\ client' = TRUE
          /\ UNCHANGED <<thrown, primary, result, returnItems>>
       \/ /\ \E e \in SocketErrors : ConnectCatch(e)
          /\ UNCHANGED client
    /\ UNCHANGED <<errVars, hostVars, watchVars, clientCreated, closeCalls, tmpVars, fileVars,
                   i, params, share, caught, existsResult, extWrites, content>>

(***************************************************************************)
(* execute: the loop over the items                                        *)
(***************************************************************************)
Entry(k, msg, data) == [item |-> k, error |-> msg, data |-> data]

\* `continue` / the end of an iteration
NextItem ==
    /\ i' = i + 1
    /\ pc' = "loop"

\* an awaited call of the item's try block rejects with e
Reject(e) ==
    /\ caught' = Raw(e, "item")
    /\ pc' = "catch"

FirstStep(op) ==
    CASE op = "list" -> "readDirectory"
      [] op = "download" -> "tmpFile"
      [] op = "upload" -> "validate"
      [] op = "delete" -> "remove"
      [] op = "rename" -> "fileOpen"

\* the parameters getNodeParameter(..., i) yields for the operation
ParamsOf(op) ==
    CASE op = "upload" ->
            {[NoParam EXCEPT !.path = p, !.replace = r] : p \in UploadPaths, r \in BOOLEAN}
      [] op = "delete" ->
            {[NoParam EXCEPT !.path = p] : p \in Paths}
              \cup {[NoParam EXCEPT !.path = p, !.folder = TRUE] : p \in FolderPaths}
      [] op = "rename" ->
            {[NoParam EXCEPT !.path = p, !.newPath = q] : p \in Paths, q \in Paths}
      [] OTHER -> {[NoParam EXCEPT !.path = p] : p \in Paths}

\* for (let i = 0; i < items.length; i++) { if (operation === ...) ... }
LoopHead ==
    /\ pc = "loop"
    /\ IF i > nItems
       THEN /\ pc' = "close"
            /\ UNCHANGED <<params, binaryFile>>
       ELSE /\ pc' = FirstStep(operation)
            /\ \E x \in ParamsOf(operation) : params' = Append(params, x)
            \* the SMB2 copy declares binaryFile inside the download branch
            /\ binaryFile' = IF node = "SMB2" THEN 0 ELSE binaryFile
    /\ UNCHANGED <<errVars, hostVars, watchVars, clientVars, tmpMade, cleanups, tmpData, cleanupFailed,
                   fileVars, i, returnItems, log, share, caught, thrown, primary, result,
                   existsResult, extWrites, content>>

\* list given a catch block like the other operations
ReadDirectory_PerItemCatch ==
    /\ pc = "readDirectory"
    /\ log' = Append(log, Call("readDirectory", param.path))
    /\ \/ /\ \E n \in 0..MaxEntries :
                returnItems' = returnItems \o [k \in 1..n |-> Entry(i, "", Absent)]
          /\ NextItem
          /\ UNCHANGED caught
       \/ /\ \E e \in ServerErrors : Reject(e)
          /\ UNCHANGED <<i, returnItems>>
    /\ UNCHANGED <<errVars, hostVars, watchVars, clientVars, tmpVars, fileVars,
                   params, share, thrown, primary, result, existsResult, extWrites, content>>

\* list: const entries = await tree.readDirectory(path), outside any inner try
ReadDirectory ==
    /\ pc = "readDirectory"
    /\ log' = Append(log, Call("readDirectory", param.path))
    /\ \/ /\ \E n \in 0..MaxEntries :
                returnItems' = returnItems \o [k \in 1..n |-> Entry(i, "", Absent)]
          /\ NextItem
          /\ UNCHANGED <<thrown, primary>>
       \/ \E e \in ServerErrors :
            /\ thrown' = Raw(e, "list")
            /\ primary' = Raw(e, "list")
            /\ pc' = "outerCatch"
            /\ UNCHANGED <<i, returnItems>>
    /\ UNCHANGED <<errVars, hostVars, watchVars, clientVars, tmpVars, fileVars,
                   params, share, caught, result, existsResult, extWrites, content>>

(***************************************************************************)
(* download                                                                *)
(***************************************************************************)
\* binaryFile = await tmpFile({ prefix: 'n8n-smb2-' })
TmpFile ==
    /\ pc = "tmpFile"
    /\ \/ /\ binaryFile' = i
          /\ tmpMade' = tmpMade \cup {i}
          /\ tmpData' = Absent
          /\ pc' = "createFileReadStream"
          /\ UNCHANGED caught
       \/ \E e \in HostErrors :
            /\ Reject(e)
            /\ UNCHANGED <<binaryFile, tmpMade, tmpData>>
    /\ UNCHANGED <<errVars, hostVars, watchVars, clientVars, cleanups, cleanupFailed, fileVars,
                   i, params, returnItems, log, share, thrown, primary, result,
                   existsResult, extWrites, content>>

\* const source = await tree.createFileReadStream(path)
CreateFileReadStream ==
    /\ pc = "createFileReadStream"
    /\ log' = Append(log, Call("createFileReadStream", param.path))
    /\ \/ /\ share[param.path] # Absent
          /\ pc' = "pipeline"
          /\ UNCHANGED caught
       \/ \E e \in ServerErrors : Reject(e)
    /\ UNCHANGED <<errVars, hostVars, watchVars, clientVars, tmpVars, fileVars,
                   i, params, returnItems, share, thrown, primary, result,
                   existsResult, extWrites, content>>

\* await pipelineAsync(source, destination): the stream is drained into the temp file
Pipeline ==
    /\ pc = "pipeline"
    /\ \/ /\ share[param.path] # Absent
          /\ tmpData' = share[param.path]
          /\ pc' = "copyBinaryFile"
          /\ UNCHANGED caught
       \/ \E e \in ServerErrors :
            /\ Reject(e)
            /\ UNCHANGED tmpData
    /\ UNCHANGED <<errVars, hostVars, watchVars, clientVars, binaryFile, tmpMade, cleanups, cleanupFailed,
                   fileVars, i, params, returnItems, log, share, thrown, primary, result,
                   existsResult, extWrites, content>>

\* binaryData[...] = await this.nodeHelpers.copyBinaryFile(...); the item is returned
CopyBinaryFile ==
    /\ pc = "copyBinaryFile"
    /\ \/ /\ returnItems' = Append(returnItems, Entry(i, "", tmpData))
          /\ pc' = "finally"
          /\ UNCHANGED caught
       \/ \E e \in HostErrors :
            /\ Reject(e)
            /\ UNCHANGED returnItems
    /\ UNCHANGED <<errVars, hostVars, watchVars, clientVars, tmpVars, fileVars,
                   i, params, log, share, thrown, primary, result,
                   existsResult, extWrites, content>>

\* finally { if (binaryFile?.cleanup) { try { await binaryFile.cleanup() } catch {} } }
\* then the iteration ends: with the pending throw, or with the next item
Finally ==
    /\ pc = "finally"
    /\ IF binaryFile # 0
       THEN /\ cleanups' = [cleanups EXCEPT ![binaryFile] = @ + 1]
            \* cleanup() resolves, or rejects and the rejection is only logged
            /\ \/ UNCHANGED cleanupFailed
               \/ cleanupFailed' = TRUE
       ELSE UNCHANGED <<cleanups, cleanupFailed>>
    /\ IF thrown # NoError
       THEN /\ pc' = "outerCatch"
            /\ UNCHANGED i
       ELSE NextItem
    /\ UNCHANGED <<errVars, hostVars, watchVars, clientVars, binaryFile, tmpMade, tmpData, fileVars,
                   params, returnItems, log, share, caught, thrown, primary, result,
                   existsResult, extWrites, content>>

(***************************************************************************)
(* upload                                                                  *)
(***************************************************************************)
\* the destination is probed before the content is looked at
Validate_ProbeFirst ==
    /\ pc = "validate"
    /\ \E u \in UploadInputs :
        LET binaryData == u[1]
            value == u[2]
            msg == IF binaryData THEN "Binary data not found for key data"
                   ELSE "File content not found" IN
        \/ \* the content is there
           /\ Truthy(value)
           /\ content' = value
           /\ pc' = IF param.replace THEN "exists" ELSE "createFile"
           /\ UNCHANGED <<i, returnItems, caught, log>>
        \/ \* the content is missing or empty
           /\ ~Truthy(value)
           /\ content' = value
           /\ log' = Append(log, Call("exists", param.path))
           /\ IF continueOnFail
              THEN /\ returnItems' = Append(returnItems, Entry(i, msg, Absent))
                   /\ NextItem
                   /\ UNCHANGED caught
              ELSE \* thrown inside the try block: the item's catch receives it
                   /\ caught' = NodeOperationError(msg, 0)
                   /\ pc' = "catch"
                   /\ UNCHANGED <<i, returnItems>>
        \/ \* getBinaryDataBuffer itself rejects
           /\ binaryData
           /\ content' = Undefined
           /\ \E e \in HostErrors : Reject(e)
           /\ UNCHANGED <<i, returnItems, log>>
    /\ UNCHANGED <<errVars, hostVars, watchVars, clientVars, tmpVars, fileVars,
                   params, share, thrown, primary, result, existsResult, extWrites>>

\* the input check: with binaryData the content is what getBinaryDataBuffer
\* resolved to, otherwise the parameter fileContent; `if (!binaryDataBuffer)` and
\* `if (!content)` refuse a falsy one
Validate ==
    /\ pc = "validate"
    /\ \E u \in UploadInputs :
        LET binaryData == u[1]
            value == u[2]
            msg == IF binaryData THEN "Binary data not found for key data"
                   ELSE "File content not found" IN
        \/ \* the content is there
           /\ Truthy(value)
           /\ content' = value
           /\ pc' = IF param.replace THEN "exists" ELSE "createFile"
           /\ UNCHANGED <<i, returnItems, caught>>
        \/ \* the content is missing or empty
           /\ ~Truthy(value)
           /\ content' = value
           /\ IF continueOnFail
              THEN /\ returnItems' = Append(returnItems, Entry(i, msg, Absent))
                   /\ NextItem
                   /\ UNCHANGED caught
              ELSE \* thrown inside the try block: the item's catch receives it
                   /\ caught' = NodeOperationError(msg, 0)
                   /\ pc' = "catch"
                   /\ UNCHANGED <<i, returnItems>>
        \/ \* getBinaryDataBuffer itself rejects
           /\ binaryData
           /\ content' = Undefined
           /\ \E e \in HostErrors : Reject(e)
           /\ UNCHANGED <<i, returnItems>>
    /\ UNCHANGED <<errVars, hostVars, watchVars, clientVars, tmpVars, fileVars,
                   params, log, share, thrown, primary, result, existsResult, extWrites>>

\* Exists with the removal unconditional: `if (exists)` dropped
Exists_AlwaysRemove ==
    /\ pc = "exists"
    /\ log' = Append(log, Call("exists", param.path))
    /\ \/ /\ existsResult' = (share[param.path] # Absent)
          /\ pc' = "removeFile"
          /\ UNCHANGED caught
       \/ /\ \E e \in ServerErrors : Reject(e)
          /\ UNCHANGED existsResult
    /\ UNCHANGED <<errVars, hostVars, watchVars, clientVars, tmpVars, fileVars,
                   i, params, returnItems, share, thrown, primary, result, extWrites, content>>

\* Exists with the removal forgotten: createFile follows whatever exists returned
Exists_SkipRemove ==
    /\ pc = "exists"
    /\ log' = Append(log, Call("exists", param.path))
    /\ \/ /\ existsResult' = (share[param.path] # Absent)
          /\ pc' = "createFile"
          /\ UNCHANGED caught
       \/ /\ \E e \in ServerErrors : Reject(e)
          /\ UNCHANGED existsResult
    /\ UNCHANGED <<errVars, hostVars, watchVars, clientVars, tmpVars, fileVars,
                   i, params, returnItems, share, thrown, primary, result, extWrites, content>>

\* if (options.replace === true) { const exists = await tree.exists(path); ...
Exists ==
    /\ pc = "exists"
    /\ log' = Append(log, Call("exists", param.path))
    /\ \/ /\ existsResult' = (share[param.path] # Absent)
          /\ pc' = IF share[param.path] # Absent THEN "removeFile" ELSE "createFile"
          /\ UNCHANGED caught
       \/ /\ \E e \in ServerErrors : Reject(e)
          /\ UNCHANGED existsResult
    /\ UNCHANGED <<errVars, hostVars, watchVars, clientVars, tmpVars, fileVars,
                   i, params, returnItems, share, thrown, primary, result, extWrites, content>>

\* ... if (exists) { await tree.removeFile(path); } }
RemoveFile ==
    /\ pc = "removeFile"
    /\ log' = Append(log, Call("removeFile", param.path))
    /\ \/ /\ share[param.path] # Absent
          /\ share' = [share EXCEPT ![param.path] = Absent]
          /\ pc' = "createFile"
          /\ UNCHANGED caught
       \/ /\ \E e \in ServerErrors : Reject(e)
          /\ UNCHANGED share
    /\ UNCHANGED <<errVars, hostVars, watchVars, clientVars, tmpVars, fileVars,
                   i, params, returnItems, thrown, primary, result,
                   existsResult, extWrites, content>>

\* the server refuses the create of a name that exists (the library opens the
\* file with the create disposition, not with overwrite)
CreateRefused(path) == share[path] # Absent

\* await tree.createFile(path, content); returnItems.push(items[i])
CreateFile ==
    /\ pc = "createFile"
    /\ log' = Append(log, Call("createFile", param.path))
    /\ \/ /\ ~CreateRefused(param.path)
          /\ share' = [share EXCEPT ![param.path] = Uploaded(i)]
          /\ returnItems' = Append(returnItems, Entry(i, "", Absent))
          /\ NextItem
          /\ UNCHANGED caught
       \/ /\ CreateRefused(param.path)
          /\ Reject(CollisionError)
          /\ UNCHANGED <<share, returnItems, i>>
       \/ /\ \E e \in ServerErrors : Reject(e)
          /\ UNCHANGED <<share, returnItems, i>>
    /\ UNCHANGED <<errVars, hostVars, watchVars, clientVars, tmpVars, fileVars,
                   params, thrown, primary, result, existsResult, extWrites, content>>

(***************************************************************************)
(* delete                                                                  *)
(***************************************************************************)
\* the server refuses to remove a directory that holds a file
RemoveDirectoryRefused(path) == \E p \in Paths : share[p] # Absent

\* delete that empties the folder before it removes it
Remove_Recursive ==
    /\ pc = "remove"
    /\ IF param.folder
       THEN /\ log' = log \o [n \in 1..1 |-> Call("removeFile", "/a")]
                          \o [n \in 1..1 |-> Call("removeDirectory", param.path)]
            /\ share' = [p \in Paths |-> Absent]
       ELSE /\ log' = Append(log, Call("removeFile", param.path))
            /\ share' = [share EXCEPT ![param.path] = Absent]
    /\ returnItems' = Append(returnItems, Entry(i, "", Absent))
    /\ NextItem
    /\ UNCHANGED <<errVars, hostVars, watchVars, clientVars, tmpVars, fileVars,
                   params, caught, thrown, primary, result, existsResult, extWrites, content>>

\* options.folder ? await tree.removeDirectory(path) : await tree.removeFile(path)
Remove ==
    /\ pc = "remove"
    /\ log' = Append(log, Call(IF param.folder THEN "removeDirectory" ELSE "removeFile",
                               param.path))
    /\ \/ /\ ~param.folder
          /\ share[param.path] # Absent
          /\ share' = [share EXCEPT ![param.path] = Absent]
          /\ returnItems' = Append(returnItems, Entry(i, "", Absent))
          /\ NextItem
          /\ UNCHANGED caught
       \/ /\ param.folder
          /\ ~RemoveDirectoryRefused(param.path)
          /\ returnItems' = Append(returnItems, Entry(i, "", Absent))
          /\ NextItem
          /\ UNCHANGED <<share, caught>>
       \/ /\ param.folder
          /\ RemoveDirectoryRefused(param.path)
          /\ Reject(DirectoryNotEmptyError)
          /\ UNCHANGED <<share, returnItems, i>>
       \/ /\ \E e \in ServerErrors : Reject(e)
          /\ UNCHANGED <<share, returnItems, i>>
    /\ UNCHANGED <<errVars, hostVars, watchVars, clientVars, tmpVars, fileVars,
                   params, thrown, primary, result, existsResult, extWrites, content>>

(***************************************************************************)
(* rename: helpers.ts Tree.prototype.renameFile, awaited by execute        *)
(***************************************************************************)
\* await file.open(path, { desiredAccess })
FileOpen ==
    /\ pc = "fileOpen"
    /\ log' = Append(log, Call("renameFile", param.path))
    /\ \/ /\ share[param.path] # Absent
          /\ fileOpens' = fileOpens + 1
          /\ pc' = "fileRename"
          /\ UNCHANGED caught
       \/ /\ \E e \in ServerErrors : Reject(e)
          /\ UNCHANGED fileOpens
    /\ UNCHANGED <<errVars, hostVars, watchVars, clientVars, tmpVars, fileCloses,
                   i, params, returnItems, share, thrown, primary, result,
                   existsResult, extWrites, content>>

\* await file.rename(newPath): rejected, or the content moves to newPath
FileRename ==
    /\ pc = "fileRename"
    /\ \/ /\ share[param.path] # Absent
          /\ share' = IF param.newPath = param.path THEN share
                      ELSE [share EXCEPT ![param.newPath] = share[param.path],
                                         ![param.path] = Absent]
          /\ pc' = "fileClose"
          /\ UNCHANGED caught
       \/ /\ \E e \in ServerErrors : Reject(e)
          /\ UNCHANGED share
    /\ UNCHANGED <<errVars, hostVars, watchVars, clientVars, tmpVars, fileVars,
                   i, params, returnItems, log, thrown, primary, result,
                   existsResult, extWrites, content>>

\* await file.close(); back in execute: returnItems.push(items[i])
FileClose ==
    /\ pc = "fileClose"
    /\ fileCloses' = fileCloses + 1
    /\ \/ /\ returnItems' = Append(returnItems, Entry(i, "", Absent))
          /\ NextItem
          /\ UNCHANGED caught
       \/ /\ \E e \in ServerErrors : Reject(e)
          /\ UNCHANGED <<returnItems, i>>
    /\ UNCHANGED <<errVars, hostVars, watchVars, clientVars, tmpVars, fileOpens,
                   params, log, share, thrown, primary, result, existsResult, extWrites, content>>

(***************************************************************************)
(* execute: the items' catch blocks, the final close and the outer catch   *)
(***************************************************************************)
FailureMessage(op, e) == "Failed to " \o op \o " file: " \o ReadableError(e)

\* ItemCatch that never rethrows: the failed item is annotated and the loop goes on
ItemCatch_AlwaysContinue ==
    /\ pc = "catch"
    /\ returnItems' = Append(returnItems,
                             Entry(i, FailureMessage(operation, AsError(caught)), Absent))
    /\ IF operation = "download"
       THEN pc' = "finally" /\ UNCHANGED i
       ELSE NextItem
    /\ UNCHANGED <<errVars, hostVars, watchVars, clientVars, tmpVars, fileVars,
                   params, log, share, caught, thrown, primary, result,
                   existsResult, extWrites, content>>

\* ItemCatch that returns the failed item without the error annotation
ItemCatch_SilentSuccess ==
    /\ pc = "catch"
    /\ IF continueOnFail
       THEN /\ returnItems' = Append(returnItems, Entry(i, "", Absent))
            /\ IF operation = "download"
               THEN pc' = "finally" /\ UNCHANGED i
               ELSE NextItem
            /\ UNCHANGED <<thrown, primary>>
       ELSE /\ thrown' = NodeOperationError(FailureMessage(operation, AsError(caught)), i)
            /\ primary' = NodeOperationError(FailureMessage(operation, AsError(caught)), i)
            /\ pc' = IF operation = "download" THEN "finally" ELSE "outerCatch"
            /\ UNCHANGED <<i, returnItems>>
    /\ UNCHANGED <<errVars, hostVars, watchVars, clientVars, tmpVars, fileVars,
                   params, log, share, caught, result, existsResult, extWrites, content>>

\* ItemCatch that gives a failed item a second attempt before it reports it
ItemCatch_RetryOnce ==
    /\ pc = "catch"
    /\ LET msg == FailureMessage(operation, AsError(caught))
           calls == SelectSeq(log, LAMBDA c : c.item = i)
           retry == /\ calls # <<>>
                    /\ Len(SelectSeq(calls, LAMBDA c : c.op = calls[Len(calls)].op)) = 1 IN
       IF retry
       THEN /\ pc' = FirstStep(operation)
            /\ UNCHANGED <<i, returnItems, thrown, primary>>
       ELSE IF continueOnFail
       THEN /\ returnItems' = Append(returnItems, Entry(i, msg, Absent))
            /\ IF operation = "download"
               THEN pc' = "finally" /\ UNCHANGED i
               ELSE NextItem
            /\ UNCHANGED <<thrown, primary>>
       ELSE /\ thrown' = NodeOperationError(msg, i)
            /\ primary' = NodeOperationError(msg, i)
            /\ pc' = IF operation = "download" THEN "finally" ELSE "outerCatch"
            /\ UNCHANGED <<i, returnItems>>
    /\ UNCHANGED <<errVars, hostVars, watchVars, clientVars, tmpVars, fileVars,
                   params, log, share, caught, result, existsResult, extWrites, content>>

\* ItemCatch that closes the client before it annotates the item and continues
ItemCatch_CloseAndContinue ==
    /\ pc = "catch"
    /\ LET msg == FailureMessage(operation, AsError(caught)) IN
       IF continueOnFail
       THEN /\ closeCalls' = closeCalls + 1
            /\ returnItems' = Append(returnItems, Entry(i, msg, Absent))
            /\ IF operation = "download"
               THEN pc' = "finally" /\ UNCHANGED i
               ELSE NextItem
            /\ UNCHANGED <<thrown, primary>>
       ELSE /\ thrown' = NodeOperationError(msg, i)
            /\ primary' = NodeOperationError(msg, i)
            /\ pc' = IF operation = "download" THEN "finally" ELSE "outerCatch"
            /\ UNCHANGED <<i, returnItems, closeCalls>>
    /\ UNCHANGED <<errVars, hostVars, watchVars, clientCreated, client, tmpVars, fileVars,
                   params, log, share, caught, result, existsResult, extWrites, content>>

\* catch (error) { const readableError = getReadableError(error);
\*   if (this.continueOnFail()) { items[i].json.error = ...; push; continue; }
\*   throw new NodeOperationError(..., { itemIndex: i }) }
\* (download passes through its finally block either way)
ItemCatch ==
    /\ pc = "catch"
    /\ LET msg == FailureMessage(operation, AsError(caught)) IN
       IF continueOnFail
       THEN /\ returnItems' = Append(returnItems, Entry(i, msg, Absent))
            /\ IF operation = "download"
               THEN pc' = "finally" /\ UNCHANGED i
               ELSE NextItem
            /\ UNCHANGED <<thrown, primary>>
       ELSE /\ thrown' = NodeOperationError(msg, i)
            /\ primary' = NodeOperationError(msg, i)
            /\ pc' = IF operation = "download" THEN "finally" ELSE "outerCatch"
            /\ UNCHANGED <<i, returnItems>>
    /\ UNCHANGED <<errVars, hostVars, watchVars, clientVars, tmpVars, fileVars,
                   params, log, share, caught, result, existsResult, extWrites, content>>

\* await client.close(); return [returnItems];   (still inside the outer try)
Close ==
    /\ pc = "close"
    /\ closeCalls' = closeCalls + 1
    /\ \/ /\ result' = "returned"
          /\ pc' = "done"
          /\ UNCHANGED <<thrown, primary>>
       \/ \E e \in SocketErrors :
            /\ thrown' = Raw(e, "close")
            /\ primary' = Raw(e, "close")
            /\ pc' = "outerCatch"
            /\ UNCHANGED result
    /\ UNCHANGED <<errVars, hostVars, watchVars, clientCreated, client, tmpVars, fileVars,
                   i, params, returnItems, log, share, caught, existsResult, extWrites, content>>

\* catch (error) { if (client) { await client.close(); } throw error; }
OuterCatch ==
    /\ pc = "outerCatch"
    /\ IF client
       THEN /\ closeCalls' = closeCalls + 1
            /\ \/ UNCHANGED thrown
               \/ \E e \in SocketErrors : thrown' = Raw(e, "close")
       ELSE UNCHANGED <<closeCalls, thrown>>
    /\ result' = "threw"
    /\ pc' = "done"
    /\ UNCHANGED <<errVars, hostVars, watchVars, clientCreated, client, tmpVars, fileVars,
                   i, params, returnItems, log, share, caught, primary,
                   existsResult, extWrites, content>>

(***************************************************************************)
(* Smb2Trigger.trigger and the closeFunction it returns                    *)
(***************************************************************************)
\* const stopFunction = await tree.watchDirectory(path, callback, recursive)
WatchDirectory ==
    /\ pc = "watchDirectory"
    /\ log' = Append(log, Call("watchDirectory", "/a"))
    /\ \/ /\ pc' = "watching"
          /\ result' = "returned"
          /\ armed' = TRUE
          /\ UNCHANGED <<thrown, primary>>
       \/ \E e \in ServerErrors :
            /\ thrown' = NodeApiError(e, ConnectMessage(e))
            /\ primary' = NodeApiError(e, ConnectMessage(e))
            /\ result' = "threw"
            /\ pc' = "done"
            /\ UNCHANGED armed
    /\ UNCHANGED <<errVars, hostVars, event, delivered, emitted, changes, connLost,
                   clientVars, tmpVars, fileVars,
                   i, params, returnItems, share, caught, existsResult, extWrites, content>>

\* const eventMap: Record<number, string> = { 0x01: "fileCreated", ... }
eventMap ==
    1 :> "fileCreated" @@ 2 :> "fileDeleted" @@ 3 :> "fileUpdated" @@
    4 :> "folderCreated" @@ 5 :> "folderDeleted" @@ 6 :> "folderUpdated"

\* eventMap[changeType]: undefined for a change type that is not a key
EventOf(changeType) ==
    IF changeType \in DOMAIN eventMap THEN Str(eventMap[changeType]) ELSE Undefined

\* the body of a notification: the raw change type, and which change it reports
Body(changeType, n) == [changeType |-> changeType, seq |-> n]

\* the callback with the filter dropped: every notification is emitted
Callback_NoFilter(body) ==
    /\ delivered' = Append(delivered, body)
    /\ emitted' = Append(emitted, body)

\* the callback matching on the kind only: any file change for a file event, any
\* folder change for a folder event
Callback_KindOnly(body) ==
    /\ delivered' = Append(delivered, body)
    /\ emitted' = IF \/ (body.changeType \in 1..3
                            /\ event \in {"fileCreated", "fileDeleted", "fileUpdated"})
                     \/ (body.changeType \in 4..6
                            /\ event \in {"folderCreated", "folderDeleted", "folderUpdated"})
                  THEN Append(emitted, body) ELSE emitted

\* (response) => { const changeType = response.body.changeType; ...
\*    if (eventMap[changeType] === event) this.emit([returnJsonArray(response.body)]) }
Callback(body) ==
    /\ delivered' = Append(delivered, body)
    /\ emitted' = IF StrictEqualsString(EventOf(body.changeType), event)
                  THEN Append(emitted, body) ELSE emitted

\* the places of the trigger at which watchDirectory has been called
WatchSteps == {"watching", "closeClient", "stopFailed", "closed", "done"}

\* a change in the watched directory; while the watch is armed the library hands
\* the server's notification to the callback
DirectoryChange ==
    /\ node = "Smb2Trigger"
    /\ pc \in WatchSteps
    /\ changes < MaxChanges
    /\ changes' = changes + 1
    /\ IF armed
       THEN \E ct \in ChangeTypes : Callback(Body(ct, changes + 1))
       ELSE UNCHANGED <<delivered, emitted>>
    /\ UNCHANGED <<errVars, hostVars, event, armed, connLost, clientVars, tmpVars, fileVars,
                   runVars>>

\* the connection breaks while the watch is armed: no notification arrives any
\* more.  trigger registers no error handler, nothing of the node runs.
ConnectionLost ==
    /\ node = "Smb2Trigger"
    /\ pc = "watching"
    /\ armed
    /\ armed' = FALSE
    /\ connLost' = TRUE
    /\ UNCHANGED <<errVars, hostVars, event, delivered, emitted, changes,
                   clientVars, tmpVars, fileVars, runVars>>

\* closeFunction: await stopFunction(); ...   A stop that resolves has released
\* the watch; after one that rejects the watch may still be held.
StopFunction ==
    /\ pc = "watching"
    /\ log' = Append(log, Call("stopFunction", "/a"))
    /\ \/ /\ pc' = "closeClient"
          /\ armed' = FALSE
       \/ /\ pc' = "stopFailed"
          /\ armed' \in {armed, FALSE}
    /\ UNCHANGED <<errVars, hostVars, event, delivered, emitted, changes, connLost,
                   clientVars, tmpVars, fileVars,
                   i, params, returnItems, share, caught, thrown, primary, result,
                   existsResult, extWrites, content>>

\* closeFunction: ... await client.close();
CloseClient ==
    /\ pc = "closeClient"
    /\ closeCalls' = closeCalls + 1
    /\ pc' = "closed"
    /\ UNCHANGED <<errVars, hostVars, watchVars, clientCreated, client, tmpVars, fileVars,
                   i, params, returnItems, log, share, caught, thrown, primary, result,
                   existsResult, extWrites, content>>

(***************************************************************************)
(* The environment: another client of the share writes a file.  Only a     *)
(* write to a path the current item names can be told from a different     *)
(* initial share, so the writer is modelled while an item is processed.    *)
(***************************************************************************)
ItemSteps ==
    {"readDirectory", "tmpFile", "createFileReadStream", "pipeline", "copyBinaryFile",
     "validate", "exists", "removeFile", "createFile", "remove",
     "fileOpen", "fileRename", "fileClose"}

ExternalWrite ==
    /\ pc \in ItemSteps
    /\ extWrites < MaxExtWrites
    /\ extWrites' = extWrites + 1
    /\ \E p \in {param.path, param.newPath} \cap Paths :
          share' = [share EXCEPT ![p] = External]
    /\ UNCHANGED <<errVars, hostVars, watchVars, clientVars, tmpVars, fileVars,
                   pc, i, params, returnItems, log, caught, thrown, primary, result,
                   existsResult, content>>

Next ==
    \/ GetCredentials \/ NewClient \/ Authenticate \/ ConnectTree
    \/ LoopHead \/ ReadDirectory
    \/ TmpFile \/ CreateFileReadStream \/ Pipeline \/ CopyBinaryFile \/ Finally
    \/ Validate \/ Exists \/ RemoveFile \/ CreateFile
    \/ Remove
    \/ FileOpen \/ FileRename \/ FileClose
    \/ ItemCatch \/ Close \/ OuterCatch
    \/ WatchDirectory \/ DirectoryChange \/ ConnectionLost \/ StopFunction \/ CloseClient
    \/ ExternalWrite

Spec == Init /\ [][Next]_vars

(***************************************************************************)
(* Specification of the pure function: draw an error, apply the function   *)
(***************************************************************************)
InitErr ==
    /\ error \in ErrorValues
    /\ readable = ""
    /\ readableLocal = ""
    /\ pcE = "input"
    /\ HandlerIdle
    /\ node = "none"
    /\ operation = "none"
    /\ continueOnFail = FALSE
    /\ nItems = 0
    /\ event = "none"
    /\ share = [p \in Paths |-> Absent]

CallGetReadableError ==
    /\ pcE = "input"
    /\ readable' = getReadableError(error)
    /\ readableLocal' = SMB2_getReadableError(error)
    /\ pcE' = "returned"
    /\ UNCHANGED <<error, hostVars, watchVars, clientVars, tmpVars, fileVars, runVars>>

NextErr == CallGetReadableError

SpecErr == InitErr /\ [][NextErr]_vars

(***************************************************************************)
(* Claims about getReadableError (checked under SpecErr)                   *)
(***************************************************************************)
Returned == pcE = "returned"

\* c is the first truthy of header.status, code, errno of e (stated from the
\* three fields, not through ErrorCodeOf)
FirstTruthyIs(e, c) ==
    /\ Truthy(c)
    /\ \/ e.hasHeader /\ e.status = c
       \/ ~(e.hasHeader /\ Truthy(e.status)) /\ e.code = c
       \/ ~(e.hasHeader /\ Truthy(e.status)) /\ ~Truthy(e.code) /\ e.errno = c

\* the code getReadableError looks up is a key of the table
LooksUpTableCode(e) ==
    ~e.nullish /\ \E c \in {e.status, e.code, e.errno} :
        FirstTruthyIs(e, c) /\ c.v \in DOMAIN SMB_ERROR_CODES

TransportString(c) ==
    CASE c = Str("ECONNREFUSED") -> "Could not connect to SMB server - Connection refused"
      [] c = Str("ETIMEDOUT") -> "Connection to SMB server timed out"
      [] c = Str("ENOTFOUND") -> "SMB server not found - Check the server address"

\* C1 as stated: an error carrying a table code (in header.status, code or errno)
\* is mapped to exactly the table's string for that code.
C1_ExactTableString ==
    Returned /\ ~error.nullish =>
        \A k \in DOMAIN SMB_ERROR_CODES :
            (Num(k) \in {HeaderStatus(error), error.code, error.errno})
                => readable = SMB_ERROR_CODES[k]

\* C1 (amended): when a table code is the first truthy of header.status, code,
\* errno, the result is the table's string for it followed by " (Code: <code>)".
C1_TableStringWithCode ==
    Returned /\ ~error.nullish =>
        \A c \in {error.status, error.code, error.errno} :
            (FirstTruthyIs(error, c) /\ c.v \in DOMAIN SMB_ERROR_CODES)
                => readable = SMB_ERROR_CODES[c.v] \o " (Code: " \o c.v \o ")"

\* C1 witness: the code is found through errno (no header status, no code)
C1_Witness ==
    /\ Returned /\ ~error.nullish
    /\ ~Truthy(HeaderStatus(error)) /\ ~Truthy(error.code)
    /\ error.errno = Num("1314")
    /\ readable = "Network Error (Code: 1314)"

\* C2 as stated: with no table code to look up, the result is the raw message
\* or the generic unknown-error string.
C2_MessageOrUnknown ==
    Returned /\ ~LooksUpTableCode(error) =>
        \/ readable = "Unknown error occurred"
        \/ error.message.t = "string" /\ readable = error.message.v

\* C2 (amended): with no table code to look up the result is, in this order of
\* precedence: the generic string for a null/undefined error; the transport
\* string for a transport code; the raw message when it is non-empty; the
\* "SMB server returned an error (Code: <status>)" string when header.status
\* is truthy; String(error) otherwise.
C2_Fallbacks ==
    Returned /\ ~LooksUpTableCode(error) =>
        readable =
            IF error.nullish THEN "Unknown error occurred"
            ELSE IF error.code \in TransportCodes THEN TransportString(error.code)
            ELSE IF error.message.t = "string" /\ error.message.v # "" THEN error.message.v
            ELSE IF error.hasHeader /\ Truthy(error.status)
                 THEN "SMB server returned an error (Code: " \o error.status.v \o ")"
            ELSE IF error.isError THEN "Error" ELSE "[object Object]"

\* C2 witness: an object with no header, code, errno or message
C2_Witness ==
    /\ Returned /\ ~error.nullish /\ ~error.hasHeader
    /\ error.code = Undefined /\ error.errno = Undefined /\ error.message = Undefined
    /\ readable = "[object Object]"

\* C3 as stated: a transport code is mapped to its fixed string whatever
\* header.status or errno the error also carries.
C3_TransportAlways ==
    Returned /\ ~error.nullish /\ error.code \in TransportCodes
        => readable = TransportString(error.code)

\* C3 (amended): a transport code is mapped to its fixed string whatever errno
\* the error carries, unless its header.status is a code of the table.
C3_TransportUnlessStatusMapped ==
    Returned /\ ~error.nullish /\ error.code \in TransportCodes
      /\ ~(error.hasHeader /\ error.status.t = "number"
             /\ error.status.v \in DOMAIN SMB_ERROR_CODES)
        => readable = TransportString(error.code)

\* C3 witness: a transport code beside an unmapped status and a mapped errno
C3_Witness ==
    /\ Returned /\ error.code = Str("ETIMEDOUT")
    /\ error.hasHeader /\ error.status = Num("3221225473")
    /\ error.errno = Num("5")
    /\ readable = "Connection to SMB server timed out"

(***************************************************************************)
(* Claims about execute and trigger (checked under Spec)                   *)
(***************************************************************************)
\* the remote calls made for item k, and their names
CallsOf(k) == SelectSeq(log, LAMBDA c : c.item = k)
OpsOf(k) == [n \in 1..Len(CallsOf(k)) |-> CallsOf(k)[n].op]
\* the output items of item k
EntriesOf(k) == SelectSeq(returnItems, LAMBDA e : e.item = k)

\* item k is reported as failed: annotated in the output, or named by the error thrown
Reported(k) ==
    \/ \E n \in DOMAIN returnItems : returnItems[n].item = k /\ returnItems[n].error # ""
    \/ primary.kind = "NodeOperationError" /\ primary.itemIndex = k
\* item k is returned without an error
Succeeded(k) ==
    \E n \in DOMAIN returnItems : returnItems[n].item = k /\ returnItems[n].error = ""
\* the handler is done with item k
Finished(k) == i > k \/ pc \in {"outerCatch", "done"}

\* C4: in execute's download, upload, delete and rename, a failed item is, with
\* continueOnFail, annotated with an error message, appended to the output and
\* followed by the next item; without continueOnFail it ends the batch with an
\* error naming the item, and no remote call is made afterwards.
C4_ContinueOrAbort ==
    /\ [][ (pc = "catch" /\ continueOnFail) =>
             /\ Len(returnItems') = Len(returnItems) + 1
             /\ SubSeq(returnItems', 1, Len(returnItems)) = returnItems
             /\ returnItems'[Len(returnItems')].item = i
             /\ returnItems'[Len(returnItems')].error # ""
             /\ thrown' = NoError
             /\ \/ pc' = "loop" /\ i' = i + 1
                \/ operation = "download" /\ pc' = "finally" /\ i' = i ]_vars
    /\ [][ (pc = "finally" /\ thrown = NoError) => (pc' = "loop" /\ i' = i + 1) ]_vars
    /\ [][ (pc = "catch" /\ ~continueOnFail) =>
             /\ thrown'.kind = "NodeOperationError" /\ thrown'.itemIndex = i
             /\ returnItems' = returnItems ]_vars
    /\ [][ thrown # NoError => (log' = log /\ i' = i) ]_vars
    /\ [](pc = "done" /\ thrown # NoError => result = "threw")

\* C4 witness: with continueOnFail the first item failed and the second was processed
C4_Witness ==
    /\ continueOnFail /\ operation \in {"download", "upload", "delete", "rename"}
    /\ Len(returnItems) = 2
    /\ returnItems[1].item = 1 /\ returnItems[1].error # ""
    /\ returnItems[2].item = 2 /\ returnItems[2].error = ""
    /\ CallsOf(2) # <<>>

\* C5: when a handler ends with an error after the Client object was created,
\* client.close has been called.
C5_ClosedBeforeError ==
    (result = "threw" /\ clientCreated) => closeCalls >= 1

\* C6: outside Tree.renameFile every file handle it opened has been closed once.
C6_HandlePaired ==
    pc \notin {"fileRename", "fileClose"} => fileCloses = fileOpens

\* C7: the error a handler ends with is the primary error, also when a cleanup
\* step (temp-file cleanup, client.close in the outer catch) failed after it.
C7_PrimaryPropagates ==
    result = "threw" => thrown = primary

\* C8: the remote calls of an upload item are exists, then removeFile exactly when
\* exists returned true, then createFile when overwrite is requested, and
\* createFile alone otherwise; a returned item has had its createFile.
C8_UploadOrder ==
    operation = "upload" =>
        \A k \in 1..Len(params) :
            LET calls == CallsOf(k)
                ops == OpsOf(k) IN
            /\ \A n \in DOMAIN calls : calls[n].path = params[k].path
            /\ IF params[k].replace
               THEN /\ ops \in {<<>>, <<"exists">>, <<"exists", "removeFile">>,
                                <<"exists", "createFile">>,
                                <<"exists", "removeFile", "createFile">>}
                    /\ Len(ops) >= 2 => (ops[2] = "removeFile" <=> calls[1].saw # Absent)
               ELSE ops \in {<<>>, <<"createFile">>}
            /\ Succeeded(k) => (ops # <<>> /\ ops[Len(ops)] = "createFile")

\* C8 witness: an overwrite upload that found the file, removed it and created it
C8_Witness ==
    /\ operation = "upload" /\ Len(params) >= 1 /\ params[1].replace
    /\ OpsOf(1) = <<"exists", "removeFile", "createFile">>
    /\ Succeeded(1)

\* a createFile that arrived at an existing path without the overwrite option
RefusedCreate(n) ==
    log[n].op = "createFile" /\ ~params[log[n].item].replace /\ log[n].saw # Absent

C9_NoSilentSuccess ==
    /\ \A n \in DOMAIN log : RefusedCreate(n) =>
          /\ ~Succeeded(log[n].item)
          /\ Finished(log[n].item) => Reported(log[n].item)
    /\ (pc = "catch" /\ log # <<>> /\ log[Len(log)].item = i /\ RefusedCreate(Len(log)))
          => share[log[Len(log)].path] = log[Len(log)].saw

\* the item before the loop index was an overwrite upload onto an existing path,
\* with no write by the external writer
OverwroteExisting ==
    /\ operation = "upload" /\ pc = "loop" /\ i > 1 /\ extWrites = 0
    /\ params[i - 1].replace
    /\ CallsOf(i - 1) # <<>> /\ CallsOf(i - 1)[1].saw # Absent

RacedCreate(n) ==
    log[n].op = "createFile" /\ params[log[n].item].replace /\ log[n].saw # Absent

\* C10: in an overwrite upload createFile meets an existing path only when the
\* external writer created it after the item's exists/removeFile; the createFile
\* is then refused, the item fails and the external content stays.
C10_CheckThenActRace ==
    operation = "upload" =>
        /\ \A n \in DOMAIN log : RacedCreate(n) =>
              /\ log[n].saw = External
              /\ n > 1 /\ log[n - 1].item = log[n].item
              /\ log[n - 1].op \in {"exists", "removeFile"}
              /\ log[n - 1].op = "exists" => log[n - 1].saw = Absent
              /\ ~Succeeded(log[n].item)
              /\ Finished(log[n].item) => Reported(log[n].item)
        /\ (pc = "catch" /\ log # <<>> /\ log[Len(log)].item = i /\ RacedCreate(Len(log)))
              => share[log[Len(log)].path] = External

\* C10 witness: the external writer created the path between exists and createFile
C10_Witness ==
    /\ operation = "upload" /\ pc = "catch" /\ Len(log) >= 2
    /\ log[Len(log)].item = i /\ RacedCreate(Len(log))
    /\ log[Len(log) - 1].op = "exists" /\ log[Len(log) - 1].saw = Absent
    /\ log[Len(log)].saw = External

(***************************************************************************)
(* Claims about the trigger's watch (checked under Spec)                   *)
(***************************************************************************)
\* the raw change types and the event each stands for, as the claim lists them
ChangeTypeEvents ==
    {<<1, "fileCreated">>, <<2, "fileDeleted">>, <<3, "fileUpdated">>,
     <<4, "folderCreated">>, <<5, "folderDeleted">>, <<6, "folderUpdated">>}

\* the notification's change type stands for the event the subscriber selected
Selected(body) == <<body.changeType, event>> \in ChangeTypeEvents

\* a step that hands one notification to the callback
Delivers == Len(delivered') = Len(delivered) + 1
Last(q) == q[Len(q)]

\* C11: the callback emits exactly when the notification's raw change type maps
\* (1..6 to fileCreated .. folderUpdated) to the selected event; a notification of
\* another or of an unmapped change type is not emitted and leaves the
\* subscription as it was.
C11_EmitOnlySelected ==
    /\ [][ emitted' # emitted =>
             /\ Delivers
             /\ Selected(Last(delivered'))
             /\ emitted' = Append(emitted, Last(delivered')) ]_vars
    /\ [][ (Delivers /\ ~Selected(Last(delivered'))) =>
             /\ emitted' = emitted
             /\ armed' = armed /\ pc' = pc /\ closeCalls' = closeCalls ]_vars
    /\ [][ (Delivers /\ Selected(Last(delivered'))) => emitted' # emitted ]_vars

\* C11 witness: with folderDeleted selected, change type 5 was emitted and the
\* unmapped change type 7 after it was not, the watch still armed
C11_Witness ==
    /\ event = "folderDeleted" /\ armed /\ pc = "watching"
    /\ Len(delivered) = 2
    /\ delivered[1].changeType = 5 /\ delivered[2].changeType = 7
    /\ emitted = <<delivered[1]>>

\* C12: with fileCreated selected, the emissions are the delivered fileCreated
\* notifications (change type 1), each once, with its body, in delivery order; a
\* fileUpdated notification (change type 3) adds none; and a delivery, emitted or
\* filtered, leaves the watch armed: until closeFunction is called every change
\* is delivered.
C12_CreatedOncePerNotification ==
    /\ [](event = "fileCreated" =>
            emitted = SelectSeq(delivered, LAMBDA b : b.changeType = 1))
    /\ [][ (event = "fileCreated" /\ Delivers /\ Last(delivered').changeType = 3)
             => emitted' = emitted ]_vars
    /\ [][ Delivers => (armed /\ armed' /\ pc' = pc) ]_vars
    /\ [][ (changes' # changes /\ pc = "watching" /\ ~connLost)
             => (Delivers /\ Last(delivered').seq = changes') ]_vars

\* C12 witness: a fileCreated notification was emitted, the fileUpdated one after
\* it was not, and the watch is still armed
C12_Witness ==
    /\ event = "fileCreated" /\ armed /\ pc = "watching"
    /\ Len(delivered) = 2
    /\ delivered[1].changeType = 1 /\ delivered[2].changeType = 3
    /\ emitted = <<Body(1, 1)>>

\* C13: once closeFunction has completed the watch is released (the directory
\* handle is closed and no notification reaches the callback any more, so nothing
\* is emitted for a later change); the watch is stopped before the client is
\* closed; and the client is closed also when stopping the watch failed.
C13_CancelStopsThenCloses ==
    /\ pc = "closed" => (~armed /\ closeCalls = 1)
    /\ (node = "Smb2Trigger" /\ closeCalls > 0) =>
          (\E n \in DOMAIN log : log[n].op = "stopFunction")
    /\ pc = "stopFailed" => closeCalls >= 1

\* the state of the subscription as the host sees it: Failed once trigger has
\* thrown, Watching from trigger's return until closeFunction is called, Idle
\* before and after
WatchState ==
    IF node # "Smb2Trigger" THEN "Idle"
    ELSE IF result = "threw" THEN "Failed"
    ELSE IF pc = "watching" THEN "Watching"
    ELSE "Idle"

\* the remote call op has been made and did not fail
Succeeded_Call(op) ==
    /\ \E n \in DOMAIN log : log[n].op = op
    /\ result # "threw"

\* C14: the subscription follows Idle -> Watching -> {Idle (cancelled), Failed}:
\* emissions happen only in Watching; Watching is entered only when connect and
\* watchDirectory have succeeded; a cancel returns it to Idle; a connection or
\* handle error moves it to Failed; nothing leads from Idle (cancelled) or
\* Failed back to Watching.
C14_StateMachine ==
    /\ [][ emitted' # emitted => WatchState = "Watching" ]_vars
    /\ [](WatchState = "Watching" =>
            /\ Succeeded_Call("authenticate") /\ Succeeded_Call("connectTree")
            /\ Succeeded_Call("watchDirectory"))
    /\ [][ (WatchState # "Watching" /\ WatchState' = "Watching") =>
             (WatchState = "Idle" /\ pc = "watchDirectory") ]_vars
    /\ [][ (WatchState = "Watching" /\ WatchState' # "Watching") =>
             /\ WatchState' \in {"Idle", "Failed"}
             /\ WatchState' = "Idle" =>
                   (\E n \in DOMAIN log' : log'[n].op = "stopFunction") ]_vars
    /\ [](connLost => WatchState = "Failed")

(***************************************************************************)
(* Claims about the order and the number of the remote calls               *)
(***************************************************************************)
\* C15: once client.close has been called no tree operation (the calls of the log,
\* the watch included) and no operation on a file handle is issued any more, in
\* execute and in the trigger.
C15_NothingAfterClose ==
    [][ closeCalls > 0 =>
          /\ log' = log
          /\ fileOpens' = fileOpens /\ fileCloses' = fileCloses
          /\ armed' = armed ]_vars

\* C15 witness: an item's operation failed after an earlier item's calls, and
\* execute ended in the outer catch, where the client was closed
C15_Witness ==
    /\ node = "Smb2" /\ pc = "done" /\ result = "threw" /\ closeCalls = 1
    /\ CallsOf(1) # <<>> /\ CallsOf(2) # <<>>

(***************************************************************************)
(* Claims about the content of the files                                   *)
(***************************************************************************)
\* C16: upload then download of the same path yields the uploaded bytes, for
\* empty and non-empty content, text or Buffer.  The two operations meet only in
\* the share, so the round trip is: an upload that was given a content and met
\* no rejected call leaves exactly its bytes at the path (first item, no
\* external writer), and a download that returns an item returns exactly the
\* bytes the path holds.
C16_RoundTrip ==
    /\ (operation = "upload" /\ content.t # "undefined")
          => caught.kind # "NodeOperationError"
    /\ (operation = "upload" /\ pc = "loop" /\ i = 2 /\ extWrites = 0
          /\ content.t # "undefined" /\ caught = NoError)
          => /\ Succeeded(1)
             /\ share[params[1].path].data = Bytes(content)
    /\ (operation = "download" /\ extWrites = 0)
          => \A n \in DOMAIN returnItems :
                returnItems[n].error = ""
                    => returnItems[n].data = share[params[returnItems[n].item].path]

\* C17: a delete item makes exactly one remote call, removeDirectory with the
\* folder option and removeFile without, on the item's path; nothing is removed
\* beforehand, so the removal of a folder that holds files is refused: the item
\* fails with the server's status and every file stays in place.
C17_DeleteSingleCall ==
    /\ [](operation = "delete" =>
            \A k \in 1..Len(params) :
                LET calls == CallsOf(k) IN
                /\ Len(calls) <= 1
                /\ Finished(k) => Len(calls) = 1
                /\ calls # <<>> =>
                     /\ calls[1].op = IF params[k].folder THEN "removeDirectory"
                                      ELSE "removeFile"
                     /\ calls[1].path = params[k].path)
    /\ [][ (operation = "delete" /\ pc = "remove" /\ param.folder
              /\ \E p \in Paths : share[p] # Absent) =>
             /\ share' = share
             /\ pc' = "catch" /\ caught'.kind = "raw" /\ Truthy(caught'.cause.status)
             /\ returnItems' = returnItems ]_vars

\* C17 witness: the removal of a folder that holds a file was refused, the item
\* is reported as failed and the file is still there
C17_Witness ==
    /\ operation = "delete" /\ continueOnFail /\ pc = "loop" /\ i = 2
    /\ params[1].folder /\ OpsOf(1) = <<"removeDirectory">>
    /\ caught = Raw(DirectoryNotEmptyError, "item")
    /\ Reported(1) /\ share["/a"] = Prior

\* the number of calls of op in the sequence of calls q
Count(q, op) == Len(SelectSeq(q, LAMBDA c : c.op = op))

\* C18: nothing is retried: in one execute authenticate and connectTree are each
\* called at most once, and for each item each remote operation is called at
\* most once, whether it succeeded or failed.
C18_NoRetry ==
    node \in {"Smb2", "SMB2"} =>
        /\ Count(log, "authenticate") <= 1
        /\ Count(log, "connectTree") <= 1
        /\ \A k \in 1..Len(params) :
             \A op \in {"readDirectory", "createFileReadStream", "exists", "removeFile",
                        "createFile", "removeDirectory", "renameFile"} :
                Count(CallsOf(k), op) <= 1

\* C18 witness: the download's createFileReadStream failed for the first item;
\* execute went on to the end with that one call
C18_Witness ==
    /\ operation = "download" /\ pc = "done" /\ result = "returned"
    /\ Reported(1) /\ OpsOf(1) = <<"createFileReadStream">>
    /\ Count(log, "authenticate") = 1 /\ Count(log, "connectTree") = 1

(***************************************************************************)
(* Claims about the errors that reach the caller                           *)
(***************************************************************************)
\* the error of the library or host that a thrown value stands for
Underlying(t) == IF t.kind = "NodeOperationError" THEN AsError(caught) ELSE t.cause

\* msg is the readable message of e, alone or after one of the handlers' prefixes
CarriesReadable(msg, e) ==
    msg \in {ReadableError(e), ConnectMessage(e)}
              \cup {FailureMessage(op, e) : op \in Operations}

\* the readable message of e names e's status code
ReadableNamesStatus(e) ==
    \/ ReadableError(e) = "SMB server returned an error (Code: " \o e.status.v \o ")"
    \/ /\ e.status.v \in DOMAIN SMB_ERROR_CODES
       /\ ReadableError(e) = SMB_ERROR_CODES[e.status.v] \o " (Code: " \o e.status.v \o ")"

\* C19: every failure that reaches the caller, thrown or annotated on an item,
\* carries the readable message of the underlying error, and the underlying
\* error's server status is preserved, in the message or in the error attached.
C19_ReadableAndStatus ==
    /\ result = "threw" =>
          LET e == Underlying(thrown) IN
          /\ CarriesReadable(thrown.message, e)
          /\ Truthy(HeaderStatus(e)) => (thrown.cause = e \/ ReadableNamesStatus(e))
    /\ (pc = "loop" /\ i > 1 /\ caught.kind = "raw" /\ returnItems # <<>>
          /\ Last(returnItems).item = i - 1 /\ Last(returnItems).error # ""
          /\ Last(returnItems).error \notin
                {"File content not found", "Binary data not found for key data"}) =>
          /\ CarriesReadable(Last(returnItems).error, caught.cause)
          /\ Truthy(HeaderStatus(caught.cause)) => ReadableNamesStatus(caught.cause)

(***************************************************************************)
(* Claims about the two copies of getReadableError (under SpecErr)         *)
(***************************************************************************)
\* C20: the status tables of nodes/SMB2/Smb2.node.ts and nodes/Smb2/helpers.ts
\* hold the same entries, and for every error value the two copies of
\* getReadableError return the same string.
C20_CopiesEquivalent ==
    /\ SMB2_SMB_ERROR_CODES = SMB_ERROR_CODES
    /\ Returned => readableLocal = readable

\* both copies have answered an unmapped status without message
C20_Witness ==
    /\ Returned
    /\ error.hasHeader /\ error.status = Num("3221225473")
    /\ error.code = Undefined /\ error.errno = Undefined
    /\ ~Truthy(error.message)
    /\ readableLocal = "SMB server returned an error (Code: 3221225473)"
    /\ readable = readableLocal

(***************************************************************************)
(* Claims about the single lookup of getReadableError (under SpecErr)      *)
(***************************************************************************)
\* the strings the lookup branch can return
TableMessages ==
    {SMB_ERROR_CODES[k] \o " (Code: " \o k \o ")" : k \in DOMAIN SMB_ERROR_CODES}

\* the first truthy of code, errno
CodeOrErrno(e) == IF Truthy(e.code) THEN e.code ELSE e.errno

\* C21: both copies of getReadableError look up one code only, the first truthy
\* of header.status, code, errno.  An error whose header.status is non-zero and
\* not in the table gets no table message, whatever its code and errno; an error
\* whose header.status is 0 is answered from code, else errno.
C21_SingleLookup ==
    Returned /\ ~error.nullish =>
      /\ (error.hasHeader /\ Truthy(error.status)
            /\ error.status.v \notin DOMAIN SMB_ERROR_CODES)
          => readable \notin TableMessages /\ readableLocal \notin TableMessages
      /\ (error.hasHeader /\ error.status = Num("0")
            /\ Truthy(CodeOrErrno(error))
            /\ CodeOrErrno(error).v \in DOMAIN SMB_ERROR_CODES)
          => LET c == CodeOrErrno(error).v IN
             /\ readable = SMB_ERROR_CODES[c] \o " (Code: " \o c \o ")"
             /\ readableLocal = readable

\* C21 witness: an unmapped status beside a mapped code and a mapped errno is
\* answered with the status, not with a table string
C21_Witness ==
    /\ Returned
    /\ error.hasHeader /\ error.status = Num("3221225473")
    /\ error.code = Num("5") /\ error.errno = Num("32")
    /\ error.message = Undefined
    /\ readable = "SMB server returned an error (Code: 3221225473)"

\* C21 second case reached: status 0, no code, a mapped errno
C21_WitnessZero ==
    /\ Returned
    /\ error.hasHeader /\ error.status = Num("0")
    /\ ~Truthy(error.code) /\ error.errno = Num("1314")
    /\ readable = "Network Error (Code: 1314)"

(***************************************************************************)
(* Claims about execute's output, temp files and frame (under Spec)        *)
(***************************************************************************)
\* continueOnFail is enabled and the operation has a catch block of its own
Continuing ==
    /\ node \in {"Smb2", "SMB2"}
    /\ continueOnFail
    /\ operation \in {"download", "upload", "delete", "rename"}

\* the step is the failure of item i: an awaited call rejects, or the input
\* check of the upload refuses the content
ItemFails ==
    \/ pc # "catch" /\ pc' = "catch"
    \/ pc = "validate" /\ ~Truthy(content') /\ pc' # "catch"

\* output of execute: one item per input item, in input order
OnePerInput ==
    /\ Len(returnItems) = nItems
    /\ \A k \in 1..Len(returnItems) : returnItems[k].item = k

\* C22: with continueOnFail and one of download, upload, delete, rename, what
\* execute returns holds one item per input item, in input order, and an item
\* carries an error exactly when its operation failed.
C22_OneOutputPerInput ==
    /\ [](Continuing /\ result = "returned" => OnePerInput)
    /\ [][Continuing /\ pc = "catch" /\ pc' # "catch" =>
            /\ Len(returnItems') = Len(returnItems) + 1
            /\ Last(returnItems').item = i /\ Last(returnItems').error # ""]_vars
    /\ [][Continuing /\ returnItems' # returnItems /\ Last(returnItems').error # "" =>
            \/ pc = "catch"
            \/ ItemFails]_vars

\* a readDirectory call of the list operation has rejected
ListFailed == operation = "list" /\ (primary.from = "list" \/ caught.kind = "raw")

\* C23: list has no per-item continuation.  Once a readDirectory call rejects,
\* with or without continueOnFail, no further item is processed and nothing is
\* added to the output; execute never returns, it ends with an error after one
\* client.close() call, so the entries of earlier items are not delivered.
C23_ListAborts ==
    /\ [](ListFailed => pc \in {"outerCatch", "done"} /\ result # "returned")
    /\ [](ListFailed /\ pc = "done" =>
            result = "threw" /\ thrown.kind = "raw" /\ closeCalls = 1)
    /\ [][ListFailed => log' = log /\ returnItems' = returnItems /\ i' = i]_vars

\* C23 witness: continueOnFail is enabled, the first item's entries were
\* collected, the second item's readDirectory rejected and execute threw
C23_Witness ==
    /\ ListFailed /\ continueOnFail
    /\ i = 2 /\ returnItems # <<>> /\ Last(returnItems).item = 1
    /\ result = "threw" /\ closeCalls = 1

\* C24: in a download, every temp file that was created is cleaned up exactly
\* once: cleanup() has been called once when the handler is done with the
\* file's item, whether the item succeeded or failed, and is never called a
\* second time for it while later items are processed; no cleanup is called
\* for an item that got no temp file.
C24_CleanupOnce ==
    operation = "download" =>
        \A k \in 1..nItems :
            /\ cleanups[k] <= 1
            /\ k \notin tmpMade => cleanups[k] = 0
            /\ (k \in tmpMade /\ Finished(k)) => cleanups[k] = 1

\* the messages of the upload's input check
ValidationMessages == {"File content not found", "Binary data not found for key data"}

\* the input check refused item k: the item is annotated with the check's
\* message, or the check's error is in the item's catch block, or it ended the batch
ValidationFailed(k) ==
    \/ \E n \in DOMAIN returnItems :
          returnItems[n].item = k /\ returnItems[n].error \in ValidationMessages
    \/ pc = "catch" /\ i = k /\ caught.kind = "NodeOperationError"
    \/ /\ primary.kind = "NodeOperationError" /\ primary.itemIndex = k
       /\ primary.message \in {"Failed to upload file: " \o m : m \in ValidationMessages}

\* C25: an upload item refused by the input check (binary data missing, text
\* content empty) makes no remote call: the refusing step leaves the share and
\* the call log as they are, and no exists, removeFile or createFile is ever
\* logged for the item, whether it is annotated or ends the batch.
C25_RefusedUploadMakesNoCall ==
    /\ [](operation = "upload" =>
            \A k \in 1..nItems : ValidationFailed(k) => CallsOf(k) = <<>>)
    /\ [][(pc = "validate" /\ pc' \notin {"validate", "exists", "createFile"}) =>
            share' = share /\ log' = log]_vars

\* C25 witness: the first item was refused and annotated, the second was uploaded
C25_Witness ==
    /\ operation = "upload" /\ continueOnFail
    /\ Len(returnItems) = 2
    /\ returnItems[1].item = 1 /\ returnItems[1].error = "File content not found"
    /\ returnItems[2].item = 2 /\ returnItems[2].error = ""
    /\ CallsOf(1) = <<>>
    /\ \E n \in DOMAIN log : log[n].item = 2 /\ log[n].op = "createFile"

\* C25 second case reached: the refused item ended the batch
C25_WitnessAbort ==
    /\ operation = "upload" /\ ~continueOnFail
    /\ result = "threw" /\ ValidationFailed(1) /\ CallsOf(1) = <<>>

(***************************************************************************)
(* Claims about the trigger's options (under Spec)                         *)
(***************************************************************************)
\* a notification of change type ct passes the callback's test for the selected event
Emits(ct) == StrictEqualsString(EventOf(ct), event)

\* C26: whichever event of the 'Watch For' options the subscriber selected,
\* there is a change-type code whose notification the callback emits.
C26_EveryEventEmittable ==
    node = "Smb2Trigger" => \E ct \in ChangeTypes : Emits(ct)

\* with watchFolderUpdated selected nothing is ever emitted, whatever is delivered
WatchFolderUpdatedSilent ==
    (node = "Smb2Trigger" /\ event = "watchFolderUpdated") => emitted = <<>>

\* with watchFolderUpdated selected, notifications were delivered and none emitted
WatchFolderUpdatedDelivered ==
    /\ event = "watchFolderUpdated" /\ Len(delivered) = MaxChanges /\ emitted = <<>>
====
